---- MODULE Spec2Model ----
(***************************************************************************)
(* Model of the middleware of stac-fastapi's api package:                  *)
(* BlobAccessMiddleware (local signing, azure.py),                         *)
(* MicrosoftPlanetaryComputerMiddleware (remote delegation with the        *)
(* process-wide token_store) and ProxyHeaderMiddleware.                    *)
(*                                                                         *)
(* Strings are sequences of lexemes (a lexeme is a TLA+ string that the    *)
(* code never looks inside): "https://a.blob.core.windows.net/c/x.tif" is  *)
(* <<"https:","/","/","a",".blob.","core.windows.net","/","c","/","x.tif">>*)
(* so that str.split, `in`, startswith and f-string concatenation are      *)
(* computed, not assumed.  Time is in minutes.                             *)
(***************************************************************************)
EXTENDS Integers, Sequences, FiniteSets, TLC

VARIABLES
    middleware,   \* which rewriting middleware the deployment installs: "mpc" or "blob"
    conn,         \* AZURE_STORAGE_CONNECTION_STRING (azure.py, read once at import)
    token_store,  \* the module-level dict collection id -> Token | None
    now,          \* the reading of datetime.datetime.now()
    pc,           \* per request task: "idle", "handler" (awaiting the handler),
                  \* "body" (awaiting the body), "run" (in the synchronous part)
    meta,         \* per task: the request's path and the handler's response
                  \* (status code, Content-Type)
    cur,          \* the task inside the synchronous part of dispatch, its document
                  \* and its position in it; NoCur when the event loop is free
    obs,          \* what the last step did (a get_token call, a response, an
                  \* exception, an interception decision); history only
    scope         \* the ASGI scope ProxyHeaderMiddleware is called with

vars == <<middleware, conn, token_store, now, pc, meta, cur, obs, scope>>

-----------------------------------------------------------------------------
(* Bounds of the model *)

\* the clock stops advancing at MaxTime
MaxTime == 10
\* longest `features` list a handler response carries
MaxItems == 3

(* Program constants *)

\* datetime.timedelta(minutes=10)
RefreshMargin == 10
\* timedelta(hours=1) in get_read_sas_token
SasValidity == 60

-----------------------------------------------------------------------------
(* Python string operations on lexeme sequences *)

IsPrefix(p, s) == Len(p) <= Len(s) /\ SubSeq(s, 1, Len(p)) = p

\* sub in s
Contains(s, sub) ==
    \E k \in 0..(Len(s) - Len(sub)) : SubSeq(s, k + 1, k + Len(sub)) = sub

RECURSIVE SplitAcc(_, _, _)
SplitAcc(s, sep, acc) ==
    IF s = <<>> THEN <<acc>>
    ELSE IF IsPrefix(sep, s)
         THEN <<acc>> \o SplitAcc(SubSeq(s, Len(sep) + 1, Len(s)), sep, <<>>)
         ELSE SplitAcc(Tail(s), sep, Append(acc, Head(s)))

\* s.split(sep): the list of the parts of s between the occurrences of sep
Split(s, sep) == SplitAcc(s, sep, <<>>)

\* lst[-1]
Last(lst) == lst[Len(lst)]

\* dict assignment d[k] = v
DictSet(d, k, v) == [x \in DOMAIN d \cup {k} |-> IF x = k THEN v ELSE d[x]]

-----------------------------------------------------------------------------
(* Values *)

\* Python's None
None == [none |-> TRUE]
\* no entry under the key
Absent == [absent |-> TRUE]
\* a JSON value that is not the object the code expects at that place
Scalar == [scalar |-> TRUE]
\* a JSON value that is not the list (or, for assets, the object to call
\* .values() on) the code expects at that place
NotAList == <<[notalist |-> TRUE]>>
\* a JSON value that is not the string the code expects at that place
NotAString == <<"<not a string>">>
\* a response body that json.loads rejects
NotJson == [notjson |-> TRUE]

NoCur == [task |-> "none"]
NoObs == [kind |-> "none"]
NoMeta == [path |-> <<>>]

\* the request tasks
Tasks == {"t1", "t2"}

Https == <<"https:", "/", "/">>
\* '.blob.core.windows.net/'
BlobHost == <<".blob.", "core.windows.net", "/">>
Slash == <<"/">>

BlobUrl(scheme, account, container, blob) ==
    scheme \o <<account>> \o BlobHost \o <<container, "/">> \o blob

GoodHref == BlobUrl(Https, "acct", "cont", <<"x.tif">>)
SecondHref == BlobUrl(Https, "acct", "cont", <<"y.tif">>)
\* an href that already carries a query string
QueryHref == GoodHref \o <<"?", "sv=1">>
\* same collection, other storage account and container
OtherHref == BlobUrl(Https, "other", "cont2", <<"x.tif">>)
\* not a blob-storage host
ForeignHref == Https \o <<"example.com", "/", "x.tif">>
\* not https
HttpHref == BlobUrl(<<"http:", "/", "/">>, "acct", "cont", <<"x.tif">>)

Asset(h) == [href |-> h, type |-> "image/tiff"]
AssetNoHref == [type |-> "image/tiff"]

CollectionLink(c) ==
    [rel |-> "collection",
     href |-> Https \o <<"stac.example", "/", "collections", "/", c>>]
SelfLink == [rel |-> "self", href |-> Https \o <<"stac.example", "/", "self">>]

Item(id, links, assets) ==
    [type |-> "Feature", id |-> id, links |-> links, assets |-> assets]
ItemNoLinks(id, assets) == [type |-> "Feature", id |-> id, assets |-> assets]
ItemNoAssets(id, links) == [type |-> "Feature", id |-> id, links |-> links]

FeatureCollection(items) == [type |-> "FeatureCollection", features |-> items]

-----------------------------------------------------------------------------
(* The signing service and the token cache: dispatch.get_token and         *)
(* dispatch.get_token_from_microsoft_blob of                               *)
(* MicrosoftPlanetaryComputerMiddleware                                    *)

\* '%Y-%m-%dT%H:%M:%SZ'
ExpiryFormat == "%Y-%m-%dT%H:%M:%SZ"

\* datetime.datetime.strptime(s, ExpiryFormat): the time, or ValueError
Strptime(s) ==
    IF s = Scalar THEN [exc |-> "TypeError"]
    ELSE IF s.fmt = ExpiryFormat THEN [exc |-> "none", t |-> s.t]
    ELSE [exc |-> "ValueError"]

\* f'https://planetarycomputer.microsoft.com/api/sas/v1/token/{storage_account}/{blob_name}'
SasUrl(storage_account, blob_name) ==
    Https \o <<"planetarycomputer.microsoft.com", "/", "api", "/", "sas", "/",
               "v1", "/", "token", "/">> \o storage_account \o Slash \o blob_name

\* a = Token(); a.token = ...; a.collection_name = ...; a.token_expire = ...
Token(token, collection_name, token_expire) ==
    [token |-> token, collection_name |-> collection_name,
     token_expire |-> token_expire]

\* The try block of get_token_from_microsoft_blob on the service's answer r:
\* the Token it builds, or the exception that the bare except catches.
\* r.status_code is never read.
ParseSigningResponse(collection_name, r) ==
    IF r.net # "ok" THEN [exc |-> "ConnectionError"]
    ELSE IF r.body = NotJson THEN [exc |-> "JSONDecodeError"]
    ELSE IF r.body = Scalar THEN [exc |-> "TypeError"]
    ELSE IF "token" \notin DOMAIN r.body THEN [exc |-> "KeyError"]
    ELSE IF "msft_expiry" \notin DOMAIN r.body THEN [exc |-> "KeyError"]
    ELSE LET e == Strptime(r.body.msft_expiry)
         IN  IF e.exc # "none" THEN [exc |-> e.exc]
             ELSE [exc |-> "none",
                   a |-> Token(r.body.token, collection_name, e.t)]

\* a faulty variant: on a refresh the stored Token is updated in place, field
\* by field, and survives a failure between the two assignments
GetTokenFromMicrosoftBlobInPlace(store, collection_name, storage_account, blob_name, r) ==
    LET p == ParseSigningResponse(collection_name, r)
        url == SasUrl(storage_account, blob_name)
    IN  IF p.exc = "none"
        THEN [ret |-> p.a, store |-> DictSet(store, collection_name, p.a),
              called |-> TRUE, n |-> 1, url |-> url]
        ELSE IF /\ collection_name \in DOMAIN store
                /\ store[collection_name] # None
                /\ r.net = "ok" /\ r.body # NotJson /\ r.body # Scalar
                /\ "token" \in DOMAIN r.body
             THEN LET a == [store[collection_name] EXCEPT !.token = r.body.token]
                  IN  [ret |-> a, store |-> DictSet(store, collection_name, a),
                       called |-> TRUE, n |-> 1, url |-> url]
             ELSE [ret |-> None, store |-> DictSet(store, collection_name, None),
                   called |-> TRUE, n |-> 1, url |-> url]

\* get_token_from_microsoft_blob: one requests.get, then token_store[collection_name]
\* is assigned the Token or None, which is returned
GetTokenFromMicrosoftBlob(store, collection_name, storage_account, blob_name, r) ==
    LET p == ParseSigningResponse(collection_name, r)
    IN  IF p.exc = "none"
        THEN [ret |-> p.a, store |-> DictSet(store, collection_name, p.a),
              called |-> TRUE, n |-> 1,
              url |-> SasUrl(storage_account, blob_name)]
        ELSE [ret |-> None, store |-> DictSet(store, collection_name, None),
              called |-> TRUE, n |-> 1,
              url |-> SasUrl(storage_account, blob_name)]

\* a faulty variant: the comparison made inclusive
NeedsRefreshInclusive(token, tnow) == token.token_expire - tnow <= RefreshMargin

\* a faulty variant: refresh only once the token has expired
NeedsRefreshExpired(token, tnow) == token.token_expire - tnow < 0

\* a faulty variant: a margin of five minutes
NeedsRefreshShortMargin(token, tnow) ==
    token.token_expire - tnow < RefreshMargin - 5

\* token.token_expire - datetime.datetime.now() < datetime.timedelta(minutes=10)
NeedsRefresh(token, tnow) == token.token_expire - tnow < RefreshMargin

\* a faulty variant: the cached sentinel is not honoured
GetTokenRetrySentinel(store, tnow, collection_name, storage_account, blob_name, r) ==
    IF collection_name \in DOMAIN store /\ store[collection_name] # None
       /\ ~NeedsRefresh(store[collection_name], tnow)
    THEN [ret |-> store[collection_name], store |-> store, called |-> FALSE,
          n |-> 0, url |-> <<>>]
    ELSE GetTokenFromMicrosoftBlob(store, collection_name, storage_account,
                                   blob_name, r)

\* a faulty variant: the refresh is repeated when the token it obtained is
\* itself inside the margin
GetTokenRefreshLoop(store, tnow, collection_name, storage_account, blob_name, r) ==
    LET first == GetTokenFromMicrosoftBlob(store, collection_name,
                                           storage_account, blob_name, r)
    IN  IF collection_name \in DOMAIN store
        THEN LET token == store[collection_name]
             IN  IF token = None
                 THEN [ret |-> None, store |-> store, called |-> FALSE, n |-> 0,
                       url |-> <<>>]
                 ELSE IF NeedsRefresh(token, tnow)
                      THEN IF first.ret # None /\ NeedsRefresh(first.ret, tnow)
                           THEN [first EXCEPT !.n = 2]
                           ELSE first
                      ELSE [ret |-> token, store |-> store, called |-> FALSE,
                            n |-> 0, url |-> <<>>]
        ELSE first

\* get_token: the cached Token, None for the cached sentinel, or a fresh issuance
GetToken(store, tnow, collection_name, storage_account, blob_name, r) ==
    IF collection_name \in DOMAIN store
    THEN LET token == store[collection_name]
         IN  IF token = None
             THEN [ret |-> None, store |-> store, called |-> FALSE, n |-> 0,
                   url |-> <<>>]
             ELSE IF NeedsRefresh(token, tnow)
                  THEN GetTokenFromMicrosoftBlob(store, collection_name,
                                                 storage_account, blob_name, r)
                  ELSE [ret |-> token, store |-> store, called |-> FALSE,
                        n |-> 0, url |-> <<>>]
    ELSE GetTokenFromMicrosoftBlob(store, collection_name, storage_account,
                                   blob_name, r)

-----------------------------------------------------------------------------
(* dispatch.tokenify of MicrosoftPlanetaryComputerMiddleware *)

\* asset_href.split('https://')[1].split('.blob.core.windows.net/')[0]
StorageAccountName(asset_href) ==
    LET parts == Split(asset_href, Https)
    IN  IF Len(parts) < 2 THEN [exc |-> "IndexError"]
        ELSE [exc |-> "none", val |-> Split(parts[2], BlobHost)[1]]

\* asset_href.split('.blob.core.windows.net/')[1].split('/')[0]
BlobName(asset_href) ==
    LET parts == Split(asset_href, BlobHost)
    IN  IF Len(parts) < 2 THEN [exc |-> "IndexError"]
        ELSE [exc |-> "none", val |-> Split(parts[2], Slash)[1]]

\* f'{asset_href}?{token.token}'
AppendToken(asset_href, token) == asset_href \o <<"?">> \o token.token

\* [link['href'] for link in stac_body['links'] if link['rel'] == 'collection']
CollectionHrefs(links) ==
    LET sel == SelectSeq(links, LAMBDA link : link.rel = "collection")
    IN  [k \in 1..Len(sel) |-> sel[k].href]

\* the first two statements of tokenify: av and collection_id, or the exception
TokenifyHead(stac_body) ==
    IF stac_body = Scalar THEN [exc |-> "TypeError"]
    ELSE IF "assets" \notin DOMAIN stac_body THEN [exc |-> "KeyError"]
    ELSE IF stac_body.assets = NotAList THEN [exc |-> "AttributeError"]
    ELSE IF "links" \notin DOMAIN stac_body THEN [exc |-> "KeyError"]
    ELSE IF stac_body.links = NotAList THEN [exc |-> "TypeError"]
    ELSE LET hrefs == CollectionHrefs(stac_body.links)
         IN  IF Len(hrefs) = 0 THEN [exc |-> "IndexError"]
             ELSE [exc |-> "none",
                   collection_id |-> Last(Split(hrefs[1], Slash))]

\* a faulty variant: the href is formatted without the `is not None` test
TokenifyAssetUnguarded(a, collection_id, store, tnow, r) ==
    IF "href" \notin DOMAIN a THEN [exc |-> "KeyError"]
    ELSE IF a.href = NotAString THEN [exc |-> "AttributeError"]
    ELSE LET asset_href == a.href
             acc == StorageAccountName(asset_href)
             blob == BlobName(asset_href)
             skip == [exc |-> "none", a |-> a, store |-> store, got |-> FALSE]
         IN  IF acc.exc # "none" \/ blob.exc # "none" THEN skip
             ELSE LET g == GetToken(store, tnow, collection_id, acc.val,
                                    blob.val, r)
                  IN  [exc |-> "none",
                       a |-> IF g.ret # None
                             THEN [a EXCEPT !.href = AppendToken(asset_href, g.ret)]
                             ELSE [a EXCEPT !.href = asset_href \o <<"?", "None">>],
                       store |-> g.store, got |-> TRUE, call |-> g]

\* the body of tokenify's loop for one asset a: the exception that leaves
\* tokenify (a['href'] is read before the try), or the new asset, the new
\* token_store and what get_token did
TokenifyAsset(a, collection_id, store, tnow, r) ==
    IF "href" \notin DOMAIN a THEN [exc |-> "KeyError"]
    ELSE IF a.href = NotAString THEN [exc |-> "AttributeError"]
    ELSE LET asset_href == a.href
             acc == StorageAccountName(asset_href)
             blob == BlobName(asset_href)
             skip == [exc |-> "none", a |-> a, store |-> store, got |-> FALSE]
         IN  IF acc.exc # "none" \/ blob.exc # "none" THEN skip
             ELSE LET g == GetToken(store, tnow, collection_id, acc.val,
                                    blob.val, r)
                  IN  [exc |-> "none",
                       a |-> IF g.ret # None
                             THEN [a EXCEPT !.href = AppendToken(asset_href, g.ret)]
                             ELSE a,
                       store |-> g.store, got |-> TRUE, call |-> g]

-----------------------------------------------------------------------------
(* azure.py: get_read_sas_token *)

\* AZURE_STORAGE_BLOB_NAME_FOR_STAC_ITEMS
StacItemsContainer == <<"stac-items">>

\* the dict built by the loop over connection_string.split(";"), or IndexError
\* for a parameter without "="
RECURSIVE AzureParams(_, _)
AzureParams(params, acc) ==
    IF params = <<>> THEN [exc |-> "none", d |-> acc]
    ELSE LET param_split == Split(Head(params), <<"=">>)
         IN  IF Len(param_split) < 2 THEN [exc |-> "IndexError"]
             ELSE AzureParams(Tail(params),
                              DictSet(acc, param_split[1], param_split[2]))

\* filename.startswith("http")
StartsWithHttp(filename) ==
    Len(filename) > 0 /\ filename[1] \in {"http:", "https:"}

\* generate_blob_sas(...): the signature names what it was computed over
GenerateBlobSas(account_name, account_key, container_name, blob_name) ==
    <<"sig(">> \o account_name \o <<",">> \o container_name \o <<",">>
        \o blob_name \o <<")">>

\* get_read_sas_token(filename) under connection string cs at time tutc:
\* the exception it raises, or the pair it returns
GetReadSasToken(cs, filename, tutc) ==
    LET key_parts == Split(cs, <<"AccountKey", "=">>)
    IN  IF Len(key_parts) < 2 THEN [exc |-> "IndexError"]
        ELSE
        LET account_key == Split(key_parts[2], <<";">>)[1]
            ps == AzureParams(Split(cs, <<";">>), <<>>)
        IN  IF ps.exc # "none" THEN [exc |-> ps.exc]
            ELSE IF <<"AccountName">> \notin DOMAIN ps.d THEN [exc |-> "KeyError"]
            ELSE IF <<"EndpointSuffix">> \notin DOMAIN ps.d THEN [exc |-> "KeyError"]
            ELSE
            LET account_name == ps.d[<<"AccountName">>]
                endpoint_suffix == ps.d[<<"EndpointSuffix">>]
            IN  IF filename = NotAString THEN [exc |-> "TypeError"]
                ELSE IF ~Contains(filename, account_name)
                THEN [exc |-> "none", token |-> <<>>, href |-> filename,
                      signed |-> FALSE]
                ELSE
                LET blob == IF StartsWithHttp(filename)
                            THEN Last(Split(filename, Slash))
                            ELSE filename
                    sas_token == GenerateBlobSas(account_name, account_key,
                                                 StacItemsContainer, blob)
                IN  [exc |-> "none", token |-> sas_token,
                     href |-> Https \o account_name \o <<".blob.">>
                                \o endpoint_suffix \o Slash
                                \o StacItemsContainer \o Slash \o blob
                                \o <<"?">> \o sas_token,
                     signed |-> TRUE, container |-> StacItemsContainer,
                     blob |-> blob, expiry |-> tutc + SasValidity]

\* `for asset in item['assets'].values()` of BlobAccessMiddleware.dispatch:
\* the exception of the lookup, if any
BlobHead(item) ==
    IF item = Scalar THEN [exc |-> "TypeError"]
    ELSE IF "assets" \notin DOMAIN item THEN [exc |-> "KeyError"]
    ELSE IF item.assets = NotAList THEN [exc |-> "AttributeError"]
    ELSE [exc |-> "none"]

\* `_, asset['href'] = get_read_sas_token(asset['href'])`
BlobAsset(asset, cs, tutc) ==
    IF "href" \notin DOMAIN asset THEN [exc |-> "KeyError"]
    ELSE LET g == GetReadSasToken(cs, asset.href, tutc)
         IN  IF g.exc # "none" THEN [exc |-> g.exc]
             ELSE [exc |-> "none", a |-> [asset EXCEPT !.href = g.href], sas |-> g]

-----------------------------------------------------------------------------
(* The synchronous part of dispatch: from the decoded body to the response. *)
(* cur.stage is "features" (first try block), "single" (second try block),  *)
(* "respond" (a return JSONResponse statement is reached) or "raise" (an    *)
(* exception leaves dispatch).  cur.i is the item, cur.j the asset about to *)
(* be processed; cur.j = 0 is the start of the item.                        *)

\* the except clauses of the two try blocks: BlobAccessMiddleware catches
\* KeyError only, MicrosoftPlanetaryComputerMiddleware KeyError and Exception
Caught(mw, exc) == mw = "mpc" \/ exc = "KeyError"

\* the items the current loop runs over
CurItems(c) == IF c.stage = "features" THEN c.decoded.features ELSE <<c.decoded>>

CurItem(c) == CurItems(c)[c.i]

\* the document with the current item replaced (assets are mutated in place)
WithItem(c, item) ==
    IF c.stage = "features"
    THEN [c.decoded EXCEPT !.features[c.i] = item]
    ELSE item

\* the second try block starts: tokenify(decoded) / decoded['assets'].values()
StartSingle(c) == [c EXCEPT !.stage = "single", !.i = 1, !.j = 0]

\* exception exc is raised inside the current try block
Raise(c, exc) ==
    IF ~Caught(c.mw, exc) THEN [c EXCEPT !.stage = "raise", !.exc = exc]
    ELSE IF c.stage = "features" THEN StartSingle(c)
    ELSE [c EXCEPT !.stage = "respond"]

\* the first try block starts: `for item in decoded['features']`
StartFeatures(c) ==
    IF c.decoded = Scalar THEN Raise(c, "TypeError")
    ELSE IF "features" \notin DOMAIN c.decoded THEN Raise(c, "KeyError")
    ELSE IF c.decoded.features = NotAList THEN Raise(c, "TypeError")
    ELSE IF Len(c.decoded.features) = 0 THEN [c EXCEPT !.stage = "respond"]
    ELSE [c EXCEPT !.stage = "features", !.i = 1, !.j = 0]

\* the current item is finished: the next item, or the return statement
ItemDone(c) ==
    IF c.stage = "features" /\ c.i < Len(c.decoded.features)
    THEN [c EXCEPT !.i = c.i + 1, !.j = 0]
    ELSE [c EXCEPT !.stage = "respond"]

\* the current asset is finished: the next asset, or the end of the item
AssetDone(c) ==
    IF c.j < Len(CurItem(c).assets) THEN [c EXCEPT !.j = c.j + 1] ELSE ItemDone(c)

\* the item's loop over its assets starts
AssetsStart(c) ==
    IF Len(CurItem(c).assets) = 0 THEN ItemDone(c) ELSE [c EXCEPT !.j = 1]

\* the state of dispatch right after `decoded = json.loads(decoded)`
Decoded(t, mw, path, response, body) ==
    StartFeatures([task |-> t, mw |-> mw, path |-> path, response |-> response,
                   original_response_type |-> response.ctype,
                   decoded |-> body, orig |-> body, stage |-> "features",
                   i |-> 0, j |-> 0, collection_id |-> <<>>, exc |-> "none",
                   inflight |-> FALSE, log |-> <<>>])

-----------------------------------------------------------------------------
(* Inputs *)

\* request.url.path values
Paths ==
    { <<"/", "search">>,
      <<"/", "collections", "/", "c1", "/", "items", "/", "i1">>,
      <<"/", "collections", "/", "c1">>,
      <<"/", "itemsearch">>,
      <<"/", "items", "-old">>,
      <<"/">> }

Statuses == {200, 300, 399, 400}

ContentTypes == {"application/json", "application/geo+json"}

\* how far the clock may move in one step
TickSteps == {5}

\* the validity the signing service may grant: inside and outside the margin
Validities == {5, 15}

\* the part of the signing URL after .../token/
ScopeOf(url) == SubSeq(url, 14, Len(url))

\* the token strings the service hands out for the scope a URL names
TokenPool(url) ==
    IF ScopeOf(url) = <<"acct", "/", "cont">> THEN {"sasA1", "sasA2"}
    ELSE IF ScopeOf(url) = <<"other", "/", "cont2">> THEN {"sasB1", "sasB2"}
    ELSE {"sasX1", "sasX2"}

NetworkError == [net |-> "error"]

\* requests.get never ran
NoResponse == [net |-> "none"]

ExpiryString(t) == [fmt |-> ExpiryFormat, t |-> t]

\* a SAS token of the service: its signature and, as Azure SAS tokens do, its
\* own expiry in the `se` field
SasTokenString(tk, expiry) == <<tk, "&se=", ToString(expiry)>>

\* the ways an answer of the signing service can be unusable
Failures == {"network", "notjson", "scalar", "nofields", "noexpiry", "badexpiry"}

\* what requests.get(url) gives when the service fails in way f
FailedResponse(f, tk, tnow) ==
    CASE f = "network" -> NetworkError
      [] f = "notjson" -> [net |-> "ok", status |-> 503, body |-> NotJson]
      [] f = "scalar" -> [net |-> "ok", status |-> 200, body |-> Scalar]
      [] f = "nofields" ->
            [net |-> "ok", status |-> 404, body |-> [detail |-> "not found"]]
      [] f = "noexpiry" ->
            [net |-> "ok", status |-> 200, body |-> [token |-> <<tk>>]]
      [] f = "badexpiry" ->
            [net |-> "ok", status |-> 200,
             body |-> [token |-> <<tk>>,
                       msft_expiry |-> [fmt |-> "%Y-%m-%dT%H:%M:%S.%fZ",
                                        t |-> tnow + 15]]]

\* what requests.get(url) may give at time tnow under the service behaviour
\* svc = [failures, statuses, validities, spent]: it fails in one of
\* svc.failures, or answers with one of svc.statuses and a body carrying a
\* token not in `used` or svc.spent, valid for one of svc.validities
SigningResponses(url, tnow, used, svc) ==
    LET fresh == TokenPool(url) \ (used \cup svc.spent)
    IN  {FailedResponse(f, tk, tnow) : f \in svc.failures, tk \in {"sasX1"}}
        \cup {[net |-> "ok", status |-> st,
               body |-> [token |-> SasTokenString(tk, tnow + v),
                         msft_expiry |-> ExpiryString(tnow + v)]] :
                 st \in svc.statuses, tk \in fresh, v \in svc.validities}

\* the handler's responses: status code and Content-Type
HandlerResponses(statuses, ctypes) ==
    {[status |-> st, ctype |-> ct] : st \in statuses, ct \in ctypes}

\* STAC items the handlers return
ItemC1 == Item("c1-0", <<SelfLink, CollectionLink("c1")>>, <<Asset(GoodHref)>>)
ItemC2 == Item("c2-0", <<CollectionLink("c2"), SelfLink>>, <<Asset(GoodHref)>>)
ItemTwoAssets ==
    Item("a", <<SelfLink, CollectionLink("c1")>>,
         <<Asset(GoodHref), Asset(SecondHref)>>)
ItemWithoutLinks == ItemNoLinks("b", <<Asset(GoodHref)>>)
ItemWithoutCollection == Item("c", <<SelfLink>>, <<Asset(GoodHref)>>)
ItemWithoutAssets == ItemNoAssets("d", <<CollectionLink("c1")>>)
ItemQuery == Item("e", <<CollectionLink("c1")>>, <<Asset(QueryHref)>>)
ItemMissingHref ==
    Item("g", <<CollectionLink("c1")>>,
         <<Asset(GoodHref), AssetNoHref, Asset(SecondHref)>>)
ItemForeign ==
    Item("h", <<CollectionLink("c1")>>,
         <<Asset(GoodHref), Asset(ForeignHref), Asset(HttpHref), Asset(SecondHref)>>)
ItemTwoAccounts ==
    Item("i", <<CollectionLink("c1")>>, <<Asset(GoodHref), Asset(OtherHref)>>)
ItemScalarHref == Item("j", <<CollectionLink("c1")>>, <<Asset(NotAString)>>)
ItemScalarAssets == Item("k", <<CollectionLink("c1")>>, NotAList)
ItemStacContainer ==
    Item("l", <<CollectionLink("c1")>>,
         <<Asset(BlobUrl(Https, "acct", "stac-items", <<"foo.tif">>)),
           Asset(BlobUrl(Https, "acct", "stac-items", <<"dir", "/", "foo.tif">>)),
           Asset(Https \o <<"example.com", "/", "acct", "/", "x.tif">>)>>)

\* all sequences over S of length at most n
SeqsUpTo(S, n) == UNION {[1..k -> S] : k \in 0..n}

\* bodies of the token-cache specification: well-formed items of two collections
CacheBodies ==
    {FeatureCollection(f) : f \in SeqsUpTo({ItemC1}, MaxItems)}
    \cup {ItemC1, ItemC2, FeatureCollection(<<ItemC1, ItemC2>>), NotJson}

\* items of the rewriting specification that take part in FeatureCollections
StructItems ==
    {ItemTwoAssets, ItemWithoutLinks, ItemWithoutCollection, ItemWithoutAssets}

SingleItems ==
    StructItems \cup {ItemQuery, ItemMissingHref, ItemForeign,
                      ItemTwoAccounts, ItemScalarHref, ItemScalarAssets,
                      ItemStacContainer}

\* bodies of the rewriting specification
RewriteBodies ==
    {FeatureCollection(f) : f \in SeqsUpTo(StructItems, MaxItems)}
    \cup SingleItems
    \cup {FeatureCollection(<<ItemQuery, ItemMissingHref, ItemTwoAssets>>),
          FeatureCollection(<<Scalar>>),
          [type |-> "FeatureCollection", features |-> NotAList],
          [type |-> "Collection", id |-> "c1"],
          Scalar, NotJson}

\* AZURE_STORAGE_CONNECTION_STRING values
ConnAll ==
    <<"AccountName", "=", "acct", ";", "AccountKey", "=", "k3y", "=", "=", ";",
      "EndpointSuffix", "=", "core.windows.net">>
ConnNoKey ==
    <<"AccountName", "=", "acct", ";", "EndpointSuffix", "=", "core.windows.net">>
ConnNoName ==
    <<"AccountKey", "=", "k3y", ";", "EndpointSuffix", "=", "core.windows.net">>
ConnNoSuffix == <<"AccountName", "=", "acct", ";", "AccountKey", "=", "k3y">>
ConnStrings == {<<>>, ConnAll, ConnNoKey, ConnNoName, ConnNoSuffix, ConnAll \o <<";">>}

-----------------------------------------------------------------------------
(* Actions *)

intercept_paths == {<<"search">>, <<"items">>}

\* set(request.url.path.split("/")).intersection(set(intercept_paths))
PathSegments(path) ==
    LET parts == Split(path, Slash) IN {parts[k] : k \in 1..Len(parts)}

\* a faulty variant: 400 taken for a redirect
BypassInclusive(status, path) ==
    \/ (300 <= status /\ status <= 400)
    \/ PathSegments(path) \cap intercept_paths = {}

\* the two early returns of dispatch
Bypass(status, path) ==
    \/ (300 <= status /\ status < 400)
    \/ PathSegments(path) \cap intercept_paths = {}

\* a request arrives: dispatch runs up to `await handler(request)`
Receive(t) ==
    /\ cur = NoCur
    /\ pc[t] = "idle"
    /\ pc' = [pc EXCEPT ![t] = "handler"]
    /\ obs' = NoObs
    /\ UNCHANGED <<scope, middleware, conn, token_store, now, meta, cur>>

\* the handler's response arrives; dispatch returns it as it is or goes on
\* to read its body
HandlerReturns(t, paths, responses) ==
    /\ cur = NoCur
    /\ pc[t] = "handler"
    /\ \E path \in paths, response \in responses :
          LET status == response.status
          IN  IF Bypass(status, path)
              THEN /\ pc' = [pc EXCEPT ![t] = "idle"]
                   /\ meta' = meta
                   /\ obs' = [kind |-> "passthrough", task |-> t, path |-> path,
                              handler |-> response, returned |-> response,
                              body_consumed |-> FALSE, store_before |-> token_store]
              ELSE /\ pc' = [pc EXCEPT ![t] = "body"]
                   /\ meta' = [meta EXCEPT ![t] = [path |-> path,
                                                   response |-> response]]
                   /\ obs' = [kind |-> "intercept", task |-> t, path |-> path,
                              handler |-> response]
    /\ UNCHANGED <<scope, middleware, conn, token_store, now, cur>>

\* the body is complete: binary.decode(), json.loads, and the first try block
\* is entered
BodyRead(t, bodies) ==
    /\ cur = NoCur
    /\ pc[t] = "body"
    /\ \E body \in bodies :
          IF body = NotJson
          THEN /\ pc' = [pc EXCEPT ![t] = "idle"]
               /\ cur' = NoCur
               /\ obs' = [kind |-> "raised", task |-> t, exc |-> "JSONDecodeError",
                          path |-> meta[t].path, handler |-> meta[t].response,
                          orig |-> body, log |-> <<>>]
          ELSE /\ pc' = [pc EXCEPT ![t] = "run"]
               /\ cur' = Decoded(t, middleware, meta[t].path, meta[t].response, body)
               /\ obs' = NoObs
    /\ meta' = [meta EXCEPT ![t] = NoMeta]
    /\ UNCHANGED <<scope, middleware, conn, token_store, now>>

\* tokenify is called on the current item and runs up to its loop
MpcEnter(t) ==
    /\ cur # NoCur /\ cur.task = t /\ cur.mw = "mpc"
    /\ cur.stage \in {"features", "single"} /\ cur.j = 0
    /\ LET h == TokenifyHead(CurItem(cur))
       IN  cur' = IF h.exc # "none" THEN Raise(cur, h.exc)
                  ELSE AssetsStart([cur EXCEPT !.collection_id = h.collection_id])
    /\ obs' = NoObs
    /\ UNCHANGED <<scope, middleware, conn, token_store, now, pc, meta>>

\* get_token on the current asset of c goes to the signing service
SigningCallDue(c, store, tnow) ==
    LET probe == TokenifyAsset(CurItem(c).assets[c.j], c.collection_id, store,
                               tnow, NetworkError)
    IN  probe.exc = "none" /\ probe.got /\ probe.call.called

\* tokenify reaches requests.get(url): the request is sent and the thread
\* waits in the call
MpcSend(t) ==
    /\ cur # NoCur /\ cur.task = t /\ cur.mw = "mpc"
    /\ cur.stage \in {"features", "single"} /\ cur.j >= 1
    /\ ~cur.inflight
    /\ SigningCallDue(cur, token_store, now)
    /\ cur' = [cur EXCEPT !.inflight = TRUE]
    /\ obs' = NoObs
    /\ UNCHANGED <<scope, middleware, conn, token_store, now, pc, meta>>

\* one iteration of tokenify's loop; when it calls the signing service, from
\* the return of requests.get on
MpcAsset(t, svc) ==
    /\ cur # NoCur /\ cur.task = t /\ cur.mw = "mpc"
    /\ cur.stage \in {"features", "single"} /\ cur.j >= 1
    /\ cur.inflight = SigningCallDue(cur, token_store, now)
    /\ LET item == CurItem(cur)
           a == item.assets[cur.j]
           calls == cur.inflight
           used == IF cur.collection_id \in DOMAIN token_store
                      /\ token_store[cur.collection_id] # None
                   THEN {token_store[cur.collection_id].token[1]}
                   ELSE {}
           answers == IF calls
                      THEN SigningResponses(
                               SasUrl(StorageAccountName(a.href).val,
                                      BlobName(a.href).val), now, used, svc)
                      ELSE {NoResponse}
       IN  \E r \in answers :
             \* res: the outcome of the iteration under answer r
             \E res \in {TokenifyAsset(a, cur.collection_id, token_store, now, r)} :
                 IF res.exc # "none"
                 THEN /\ cur' = Raise(cur, res.exc)
                      /\ token_store' = token_store
                      /\ obs' = NoObs
                 ELSE /\ cur' = AssetDone(
                            [cur EXCEPT
                               !.decoded = WithItem(cur,
                                   [item EXCEPT !.assets[cur.j] = res.a]),
                               !.inflight = FALSE,
                               !.log = IF calls
                                       THEN @ \o [k \in 1..res.call.n |->
                                                   <<cur.collection_id,
                                                     res.call.ret # None>>]
                                       ELSE @])
                      /\ token_store' = res.store
                      /\ obs' = IF res.got
                                THEN [kind |-> "get_token", task |-> t,
                                      collection_name |-> cur.collection_id,
                                      pre |-> IF cur.collection_id \in DOMAIN token_store
                                              THEN token_store[cur.collection_id]
                                              ELSE Absent,
                                      earlier |->
                                        /\ cur.collection_id \in DOMAIN token_store
                                        /\ \A k \in 1..Len(cur.log) :
                                              cur.log[k][1] # cur.collection_id,
                                      tnow |-> now, called |-> res.call.called,
                                      r |-> r, url |-> res.call.url,
                                      ret |-> res.call.ret,
                                      before |-> token_store,
                                      href_before |-> a.href,
                                      href_after |-> res.a.href,
                                      pos |-> <<cur.stage, cur.i, cur.j>>,
                                      n |-> res.call.n,
                                      ncalls |-> Len(cur.log) + res.call.n]
                                ELSE [kind |-> "skip", task |-> t, asset |-> a]
    /\ UNCHANGED <<scope, middleware, conn, now, pc, meta>>

\* `for asset in item['assets'].values()` starts for the current item
BlobEnter(t) ==
    /\ cur # NoCur /\ cur.task = t /\ cur.mw = "blob"
    /\ cur.stage \in {"features", "single"} /\ cur.j = 0
    /\ LET h == BlobHead(CurItem(cur))
       IN  cur' = IF h.exc # "none" THEN Raise(cur, h.exc) ELSE AssetsStart(cur)
    /\ obs' = NoObs
    /\ UNCHANGED <<scope, middleware, conn, token_store, now, pc, meta>>

\* one iteration of BlobAccessMiddleware's loop over the assets
BlobStep(t) ==
    /\ cur # NoCur /\ cur.task = t /\ cur.mw = "blob"
    /\ cur.stage \in {"features", "single"} /\ cur.j >= 1
    /\ LET item == CurItem(cur)
           a == item.assets[cur.j]
           res == BlobAsset(a, conn, now)
       IN  IF res.exc # "none"
           THEN /\ cur' = Raise(cur, res.exc)
                /\ obs' = NoObs
           ELSE /\ cur' = AssetDone(
                      [cur EXCEPT !.decoded = WithItem(cur,
                                     [item EXCEPT !.assets[cur.j] = res.a])])
                /\ obs' = [kind |-> "sas", task |-> t, href_before |-> a.href,
                           sas |-> res.sas]
    /\ UNCHANGED <<scope, middleware, conn, token_store, now, pc, meta>>

\* a faulty variant: media_type not passed on
JSONResponseDefaultType(content, status_code, media_type) ==
    [status |-> status_code, ctype |-> "application/json", content |-> content]

\* JSONResponse(content=decoded, status_code=response.status_code,
\*              media_type=original_response_type)
JSONResponse(content, status_code, media_type) ==
    [status |-> status_code, ctype |-> media_type, content |-> content]

\* dispatch returns the rewritten response
Respond(t) ==
    /\ cur # NoCur /\ cur.task = t /\ cur.stage = "respond"
    /\ pc' = [pc EXCEPT ![t] = "idle"]
    /\ cur' = NoCur
    /\ obs' = [kind |-> "response", task |-> t, path |-> cur.path,
               handler |-> cur.response,
               orig |-> cur.orig, log |-> cur.log,
               returned |-> JSONResponse(cur.decoded, cur.response.status,
                                         cur.original_response_type)]
    /\ UNCHANGED <<scope, middleware, conn, token_store, now, meta>>

\* an exception no except clause catches leaves dispatch
Propagate(t) ==
    /\ cur # NoCur /\ cur.task = t /\ cur.stage = "raise"
    /\ pc' = [pc EXCEPT ![t] = "idle"]
    /\ cur' = NoCur
    /\ obs' = [kind |-> "raised", task |-> t, exc |-> cur.exc,
               path |-> cur.path, handler |-> cur.response, orig |-> cur.orig,
               log |-> cur.log]
    /\ UNCHANGED <<scope, middleware, conn, token_store, now, meta>>

\* time passes
Tick ==
    /\ \E d \in TickSteps : now + d <= MaxTime /\ now' = now + d
    /\ obs' = NoObs
    /\ UNCHANGED <<scope, middleware, conn, token_store, pc, meta, cur>>

-----------------------------------------------------------------------------
(* Specifications *)

\* the process has started: token_store = {}
Started ==
    /\ token_store = <<>>
    /\ now = 0
    /\ pc = [t \in Tasks |-> "idle"]
    /\ meta = [t \in Tasks |-> NoMeta]
    /\ cur = NoCur
    /\ obs = NoObs

\* no request is at ProxyHeaderMiddleware
NoScope == [type |-> "none"]

\* the remote-delegation deployment
Init ==
    /\ middleware = "mpc"
    /\ conn = <<>>
    /\ scope = NoScope
    /\ Started

\* requests one after another on the token cache, with the clock running
Next ==
    \/ \E t \in {"t1"} :
          \/ Receive(t)
          \/ HandlerReturns(t, {<<"/", "search">>, <<"/", "collections">>},
                            HandlerResponses({200, 302}, {"application/json"}))
          \/ BodyRead(t, CacheBodies)
          \/ MpcEnter(t)
          \/ MpcSend(t)
          \/ MpcAsset(t, [failures |-> Failures, statuses |-> {200, 503},
                          validities |-> Validities, spent |-> {}])
          \/ Respond(t)
    \/ Tick

Spec == Init /\ [][Next]_vars

\* either deployment
InitRewrite ==
    /\ \/ middleware = "mpc" /\ conn = <<>>
       \/ middleware = "blob" /\ conn \in ConnStrings
    /\ scope = NoScope
    /\ Started

\* one request at a time on every document shape, the clock standing still
NextRewrite ==
    \E t \in {"t1"} :
       \/ Receive(t)
       \/ HandlerReturns(t, Paths,
                         HandlerResponses(Statuses, {"application/json"})
                            \cup HandlerResponses({200}, ContentTypes))
       \/ BodyRead(t, RewriteBodies)
       \/ MpcEnter(t)
       \/ MpcSend(t)
       \/ MpcAsset(t, [failures |-> {"network"}, statuses |-> {200},
                       validities |-> {15}, spent |-> {"sasA2", "sasB2"}])
       \/ BlobEnter(t)
       \/ BlobStep(t)
       \/ Respond(t)
       \/ Propagate(t)

SpecRewrite == InitRewrite /\ [][NextRewrite]_vars

\* bodies of the concurrent specification: items of one collection, and of two
ConcBodies == {ItemC1, ItemTwoAssets, FeatureCollection(<<ItemC1, ItemC2>>)}

ConcPaths == {<<"/", "search">>, <<"/", "collections">>}

ConcResponses == HandlerResponses({200}, {"application/json"})

\* two requests in the event loop of one process: their coroutines interleave
\* at the awaits of dispatch (the handler, the body iterator) and nowhere else
NextConc ==
    \E t \in Tasks :
       \/ Receive(t)
       \/ HandlerReturns(t, ConcPaths, ConcResponses)
       \/ BodyRead(t, ConcBodies)
       \/ MpcEnter(t)
       \/ MpcSend(t)
       \/ MpcAsset(t, [failures |-> {"network", "noexpiry"}, statuses |-> {200},
                       validities |-> Validities, spent |-> {}])
       \/ Respond(t)
       \/ Tick

SpecConc == Init /\ [][NextConc]_vars

\* a document with both `features` and the fields of an item
HybridDocument ==
    [type |-> "FeatureCollection",
     features |-> <<ItemTwoAssets, ItemWithoutLinks>>,
     links |-> <<CollectionLink("c1")>>,
     assets |-> <<Asset(GoodHref)>>]

\* bodies of the termination specification
TermBodies ==
    {FeatureCollection(f) : f \in SeqsUpTo({ItemC1, ItemTwoAssets}, 2)}
    \cup {ItemTwoAssets, ItemTwoAccounts, ItemMissingHref, HybridDocument}

\* a signing service whose tokens are always inside the refresh margin
TermService ==
    [failures |-> {"network"}, statuses |-> {200}, validities |-> {5},
     spent |-> {}]

NextTerm ==
    \E t \in {"t1"} :
       \/ Receive(t)
       \/ HandlerReturns(t, ConcPaths, ConcResponses)
       \/ BodyRead(t, TermBodies)
       \/ MpcEnter(t)
       \/ MpcSend(t)
       \/ MpcAsset(t, TermService)
       \/ Respond(t)

\* a statement of the synchronous part of dispatch.  The part runs on once
\* it is entered, and requests.get comes back with an answer or an exception.
SyncStep ==
    \/ Respond("t1")
    \/ MpcEnter("t1")
    \/ MpcSend("t1")
    \/ MpcAsset("t1", TermService)

SpecTerm == Init /\ [][NextTerm]_vars /\ WF_vars(SyncStep)

-----------------------------------------------------------------------------
(* ProxyHeaderMiddleware.  A Python str is [str |-> lexemes], an int is      *)
(* [int |-> n]; header names and values are as decoded from the scope.      *)

PyStr(s) == [str |-> s]
PyInt(n) == [int |-> n]

\* http.client.HTTP_PORT, HTTPS_PORT
HTTP_PORT == 80
HTTPS_PORT == 443

\* the decimal numerals of the model
Numerals == {"80", "443", "8000", "8080", "8443"}

\* the value of a decimal numeral
DecimalValue(d) ==
    CASE d = "80" -> 80
      [] d = "443" -> 443
      [] d = "8000" -> 8000
      [] d = "8080" -> 8080
      [] d = "8443" -> 8443

\* the decimal numeral of a number
DecimalString(n) == CHOOSE d \in Numerals : DecimalValue(d) = n

\* int(x) for a str or an int x: the int, or ValueError
PyIntOf(x) ==
    IF "int" \in DOMAIN x THEN [exc |-> "none", val |-> x]
    ELSE IF Len(x.str) = 1 /\ x.str[1] \in Numerals
         THEN [exc |-> "none", val |-> PyInt(DecimalValue(x.str[1]))]
         ELSE [exc |-> "ValueError"]

\* f"{port}" for a str or an int
PyFormat(x) == IF "int" \in DOMAIN x THEN <<DecimalString(x.int)>> ELSE x.str

\* _get_header_value_by_name: the value of the only header of that name,
\* else the default
GetHeaderValueByName(headers, header_name, default_value) ==
    LET candidates == SelectSeq(headers, LAMBDA h : h[1] = header_name)
    IN  IF Len(candidates) = 1 THEN PyStr(candidates[1][2]) ELSE default_value

\* the loop over forwarded.split(";") from state st = [proto, domain, port]
RECURSIVE ForwardedParts(_, _)
ForwardedParts(parts, st) ==
    IF parts = <<>> THEN st
    ELSE LET part == Head(parts)
         IN  IF ~(Len(part) > 0 /\ Contains(part, <<"=">>))
             THEN ForwardedParts(Tail(parts), st)
             ELSE LET kv == Split(part, <<"=">>)
                  IN  IF Len(kv) # 2 THEN [st EXCEPT !.exc = "ValueError"]
                      ELSE IF kv[1] = <<"proto">>
                      THEN ForwardedParts(Tail(parts),
                                          [st EXCEPT !.proto = kv[2]])
                      ELSE IF kv[1] = <<"host">>
                      THEN LET host_parts == Split(kv[2], <<":">>)
                               p == IF Len(host_parts) = 2
                                    THEN PyIntOf(PyStr(host_parts[2]))
                                    ELSE [exc |-> "none", val |-> None]
                           IN  ForwardedParts(Tail(parts),
                                  [st EXCEPT !.domain = host_parts[1],
                                             !.port = IF p.exc = "none"
                                                      THEN p.val ELSE @])
                      ELSE ForwardedParts(Tail(parts), st)

\* _get_forwarded_url_parts(scope): (proto, domain, port), or the exception
GetForwardedUrlParts(sc) ==
    LET proto == sc.scheme
        header_host == GetHeaderValueByName(sc.headers, "host", None)
        host_parts == Split(header_host.str, <<":">>)
        domain == IF header_host = None THEN sc.server[1]
                  ELSE host_parts[1]
        port == IF header_host = None THEN PyInt(sc.server[2])
                ELSE IF Len(host_parts) = 2 THEN PyStr(host_parts[2])
                ELSE None
        st == [exc |-> "none", proto |-> proto, domain |-> domain, port |-> port]
        forwarded == GetHeaderValueByName(sc.headers, "forwarded", None)
    IN  IF forwarded # None
        THEN ForwardedParts(Split(forwarded.str, <<";">>), st)
        ELSE LET xproto == GetHeaderValueByName(sc.headers, "x-forwarded-proto",
                                                PyStr(proto))
                 port_str == GetHeaderValueByName(sc.headers, "x-forwarded-port",
                                                  port)
                 p == IF port_str # None THEN PyIntOf(port_str)
                      ELSE [exc |-> "none", val |-> None]
             IN  [st EXCEPT !.proto = xproto.str,
                            !.port = IF p.exc = "none" THEN p.val ELSE @]

\* port != HTTP_PORT: a str never equals an int
PyNotEqualInt(port, n) == IF "int" \in DOMAIN port THEN port.int # n ELSE TRUE

\* the port_suffix of __call__
PortSuffix(proto, port) ==
    IF port # None
       /\ \/ (proto = <<"http">> /\ PyNotEqualInt(port, HTTP_PORT))
          \/ (proto = <<"https">> /\ PyNotEqualInt(port, HTTPS_PORT))
    THEN <<":">> \o PyFormat(port)
    ELSE <<>>

\* _replace_header_value_by_name
ReplaceHeaderValueByName(headers, header_name, new_value) ==
    SelectSeq(headers, LAMBDA h : h[1] # header_name)
        \o <<<<header_name, new_value>>>>

\* the headers a request carries, from the values given (<<>>: no such header)
HeaderList(host, forwarded, xproto, xport) ==
    <<<<"accept", <<"*/*">>>>>>
    \o (IF host = <<>> THEN <<>> ELSE <<<<"host", host>>>>)
    \o (IF forwarded = <<>> THEN <<>> ELSE <<<<"forwarded", forwarded>>>>)
    \o (IF xproto = <<>> THEN <<>> ELSE <<<<"x-forwarded-proto", xproto>>>>)
    \o (IF xport = <<>> THEN <<>> ELSE <<<<"x-forwarded-port", xport>>>>)

HostValues ==
    {<<>>, <<"example.com">>, <<"example.com", ":", "80">>,
     <<"example.com", ":", "443">>, <<"example.com", ":", "8080">>}

ForwardedValues ==
    {<<>>, <<"for", "=", "1.2.3.4">>, <<"proto", "=", "https">>,
     <<"host", "=", "fwd.example", ":", "8443">>,
     <<"for", "=", "1.2.3.4", ";", "proto", "=", "https", ";",
       "host", "=", "fwd.example">>,
     <<"proto", "=", "https", ";", "host", "=", "fwd.example", ":", "443">>}

XProtoValues == {<<>>, <<"https">>}

XPortValues == {<<>>, <<"443">>, <<"8443">>}

\* scope["server"]
Servers == {<<<<"10.0.0.1">>, 8000>>, <<<<"10.0.0.1">>, 80>>}

\* the scopes the server hands to the middleware
Scopes ==
    {[type |-> ty, scheme |-> <<sch>>, server |-> srv,
      headers |-> HeaderList(h, f, xp, xo), app_called |-> FALSE] :
        ty \in {"http"}, sch \in {"http", "https"}, srv \in Servers,
        h \in HostValues, f \in ForwardedValues, xp \in XProtoValues,
        xo \in XPortValues}
    \cup {[type |-> "websocket", scheme |-> <<"ws">>,
           server |-> <<<<"10.0.0.1">>, 8000>>,
           headers |-> HeaderList(<<"example.com", ":", "80">>, f, <<>>, <<>>),
           app_called |-> FALSE] : f \in ForwardedValues}

\* ProxyHeaderMiddleware.__call__ on an http scope, up to the call of the app
ProxyCall ==
    /\ scope # NoScope /\ ~scope.app_called
    /\ scope.type = "http"
    /\ LET parts == GetForwardedUrlParts(scope)
       IN  IF parts.exc # "none"
           THEN /\ scope' = scope
                /\ obs' = [kind |-> "proxy_raised", exc |-> parts.exc]
           ELSE /\ scope' =
                     [scope EXCEPT
                        !.scheme = parts.proto,
                        !.headers = ReplaceHeaderValueByName(@, "host",
                                       parts.domain
                                          \o PortSuffix(parts.proto, parts.port)),
                        !.app_called = TRUE]
                /\ obs' = [kind |-> "proxy", before |-> scope, parts |-> parts]
    /\ UNCHANGED <<middleware, conn, token_store, now, pc, meta, cur>>

\* __call__ on a scope that is not http: the app is called with it as it is
ProxyPass ==
    /\ scope # NoScope /\ ~scope.app_called
    /\ scope.type # "http"
    /\ scope' = [scope EXCEPT !.app_called = TRUE]
    /\ obs' = [kind |-> "proxy_pass", before |-> scope]
    /\ UNCHANGED <<middleware, conn, token_store, now, pc, meta, cur>>

InitProxy ==
    /\ middleware = "mpc"
    /\ conn = <<>>
    /\ scope \in Scopes
    /\ Started

NextProxy == ProxyCall \/ ProxyPass

SpecProxy == InitProxy /\ [][NextProxy]_vars

-----------------------------------------------------------------------------
(* Properties of the token cache (specification Spec) *)

\* the last step was a get_token call that found a Token under the key
FoundToken == obs.kind = "get_token" /\ obs.pre # Absent /\ obs.pre # None

\* the Token found was outside / inside the refresh margin
FoundFresh == FoundToken /\ obs.pre.token_expire - obs.tnow >= RefreshMargin
FoundStale == FoundToken /\ obs.pre.token_expire - obs.tnow < RefreshMargin

\* the service's answer carries a token and an expiry in the documented format
HasTokenAndExpiry(r) ==
    /\ r.net = "ok"
    /\ r.body # NotJson /\ r.body # Scalar
    /\ "token" \in DOMAIN r.body /\ "msft_expiry" \in DOMAIN r.body
    /\ r.body.msft_expiry.fmt = "%Y-%m-%dT%H:%M:%SZ"

\* the record an answer describes
IssuedRecord(c, r) ==
    [token |-> r.body.token, collection_name |-> c,
     token_expire |-> r.body.msft_expiry.t]

\* the entry of the call's collection after the call
EntryNow == token_store[obs.collection_name]

\* C1: a get_token call that finds a Token with token_expire - now >= 10
\* minutes returns that Token, calls no signing service and leaves token_store
\* as it was; the href gets that Token's value appended (also when the Token
\* was stored by an earlier request).
C1_CacheHit ==
    FoundFresh =>
        /\ obs.ret = obs.pre
        /\ ~obs.called
        /\ obs.r = NoResponse
        /\ token_store = obs.before
        /\ obs.href_after = obs.href_before \o <<"?">> \o obs.pre.token

\* a later request, later in time, reuses the token an earlier request stored
C1_Witness ==
    /\ FoundFresh /\ obs.earlier /\ obs.tnow > 0
    /\ ~obs.called
    /\ obs.pre.token_expire - obs.tnow = RefreshMargin

\* C2 (as claimed): a get_token call that finds a Token with
\* token_expire - now < 10 minutes calls the signing service, and the entry
\* becomes the newly issued record, which is returned.
C2_RefreshAlwaysIssues ==
    FoundStale =>
        /\ obs.called
        /\ obs.ret # None
        /\ EntryNow = obs.ret
        /\ obs.ret.token # obs.pre.token

\* C2 (amended): such a call calls the signing service once; when the answer
\* carries a token and a parseable expiry the entry becomes the record of that
\* answer, which is returned; otherwise the entry becomes None and None is
\* returned.
C2_Refresh ==
    FoundStale =>
        /\ obs.called
        /\ obs.ncalls = Len(cur.log) /\ obs.r # NoResponse
        /\ EntryNow = obs.ret
        /\ obs.ret = IF HasTokenAndExpiry(obs.r)
                     THEN IssuedRecord(obs.collection_name, obs.r)
                     ELSE None

\* a stale Token was replaced by a newly issued one
C2_Witness ==
    /\ FoundStale /\ obs.called /\ obs.ret # None
    /\ obs.pre.token_expire > obs.tnow
    /\ EntryNow.token # obs.pre.token
    /\ EntryNow.token_expire # obs.pre.token_expire

\* C3: a get_token call that finds no entry calls the signing service once;
\* a 200 answer with token and parseable expiry is stored as a Token and
\* returned; every other answer (network error, non-200, non-JSON, missing
\* field, unparseable expiry) stores None and returns None.
C3_MissPath ==
    (obs.kind = "get_token" /\ obs.pre = Absent) =>
        /\ obs.called
        /\ obs.r # NoResponse
        /\ EntryNow = obs.ret
        /\ obs.ret = IF HasTokenAndExpiry(obs.r) /\ obs.r.status = 200
                     THEN IssuedRecord(obs.collection_name, obs.r)
                     ELSE None

\* C4: a get_token call that finds the sentinel None returns None without
\* calling the signing service and changes nothing; within one request no
\* signing call for a collection follows a failed one for that collection.
C4_NegativeCache ==
    /\ (obs.kind = "get_token" /\ obs.pre = None) =>
          /\ obs.ret = None
          /\ ~obs.called
          /\ token_store = obs.before
          /\ obs.href_after = obs.href_before
    /\ cur # NoCur =>
          \A k \in 1..Len(cur.log) : \A m \in 1..Len(cur.log) :
             (k < m /\ cur.log[k][1] = cur.log[m][1]) => cur.log[k][2]

\* the sentinel stored by a failed call is met again in the same request
C4_Witness ==
    /\ obs.kind = "get_token" /\ obs.pre = None /\ ~obs.earlier
    /\ cur # NoCur /\ Len(cur.log) = 1 /\ ~cur.log[1][2]

\* C5: a get_token call that finds a sentinel None stored by an earlier
\* request calls the signing service again.
C5_RetryAcrossRequests ==
    (obs.kind = "get_token" /\ obs.pre = None /\ obs.earlier) => obs.called

-----------------------------------------------------------------------------
(* Properties of the rewriting (specification SpecRewrite) *)

\* C6: an href that already contains "?" gets no "?token" appended.
C6_NoDoubleAppend ==
    (obs.kind = "get_token" /\ Contains(obs.href_before, <<"?">>)) =>
        obs.href_after = obs.href_before

\* the field the middleware mw needs is missing from the item
RequiredMissing(mw, item) ==
    \/ "assets" \notin DOMAIN item
    \/ /\ mw = "mpc"
       /\ \/ "links" \notin DOMAIN item
          \/ \A k \in 1..Len(item.links) : item.links[k].rel # "collection"

\* the response, or the exception, of a request for a FeatureCollection with
\* exactly one item lacking a required field, with tokens available
OneMalformedItem(k) ==
    /\ obs.kind \in {"response", "raised"}
    /\ obs.orig \in {FeatureCollection(f) : f \in SeqsUpTo(StructItems, MaxItems)}
    /\ k \in 1..Len(obs.orig.features)
    /\ \A i \in 1..Len(obs.orig.features) :
          RequiredMissing(middleware, obs.orig.features[i]) <=> i = k
    /\ \A c \in DOMAIN token_store : token_store[c] # None
    /\ \A n \in 1..Len(obs.log) : obs.log[n][2]
    /\ middleware = "blob" => conn = ConnAll

\* C7: when item k of a FeatureCollection lacks a required field, every asset
\* href of every other item is rewritten, item k is left as it was and no
\* exception leaves dispatch.
C7_ItemIsolation ==
    \A k \in 1..MaxItems :
       OneMalformedItem(k) =>
          /\ obs.kind = "response"
          /\ obs.returned.content.features[k] = obs.orig.features[k]
          /\ \A i \in 1..Len(obs.orig.features) : i # k =>
                \A j \in 1..Len(obs.orig.features[i].assets) :
                   obs.returned.content.features[i].assets[j].href
                      # obs.orig.features[i].assets[j].href

\* C8: whatever the JSON document and the configuration, no exception leaves
\* dispatch.
C8_NeverRaises == obs.kind = "raised" => obs.orig = NotJson

\* the path has a segment that is exactly `search` or `items`
HasInterceptSegment(path) ==
    \E k \in 1..Len(path) :
       /\ path[k] \in {"search", "items"}
       /\ (k = 1 \/ path[k - 1] = "/")
       /\ (k = Len(path) \/ path[k + 1] = "/")

IsRedirect(status) == status \in 300..399

\* C9: dispatch goes on to rewrite only when the status code is outside
\* 300..399 and the path has a segment `search` or `items`; otherwise it
\* returns the handler's response itself, body unread, token_store untouched.
C9_InterceptionBoundary ==
    /\ obs.kind = "intercept" =>
          /\ ~IsRedirect(obs.handler.status) /\ HasInterceptSegment(obs.path)
          /\ pc[obs.task] = "body"
    /\ obs.kind = "passthrough" =>
          /\ IsRedirect(obs.handler.status) \/ ~HasInterceptSegment(obs.path)
          /\ obs.returned = obs.handler /\ ~obs.body_consumed
          /\ token_store = obs.store_before
          /\ pc[obs.task] = "idle" /\ cur = NoCur
    /\ cur # NoCur =>
          ~IsRedirect(cur.response.status) /\ HasInterceptSegment(cur.path)
    /\ obs.kind \in {"response", "raised"} =>
          ~IsRedirect(obs.handler.status) /\ HasInterceptSegment(obs.path)

\* a response outside the boundary on either side
C9_Witness ==
    /\ obs.kind = "passthrough"
    /\ obs.handler.status = 200
    /\ obs.path = <<"/", "items", "-old">>

\* the asset with its href blanked
EraseAsset(a) == IF "href" \in DOMAIN a THEN [a EXCEPT !.href = <<>>] ELSE a

\* the item with the hrefs of its assets blanked
EraseItem(item) ==
    IF item = Scalar THEN item
    ELSE IF "assets" \notin DOMAIN item THEN item
    ELSE IF item.assets = NotAList THEN item
    ELSE [item EXCEPT !.assets = [k \in 1..Len(@) |-> EraseAsset(@[k])]]

\* the document with every assets.*.href of its item(s) blanked
EraseHrefs(doc) ==
    IF doc = Scalar THEN doc
    ELSE IF "features" \notin DOMAIN doc THEN EraseItem(doc)
    ELSE IF doc.features = NotAList THEN doc
    ELSE [doc EXCEPT !.features = [k \in 1..Len(@) |-> EraseItem(@[k])]]

\* C10: a re-emitted response has the handler's status code and Content-Type,
\* and its document is the original one except for assets.*.href values.
C10_OutputFrame ==
    obs.kind = "response" =>
        /\ obs.returned.status = obs.handler.status
        /\ obs.returned.ctype = obs.handler.ctype
        /\ EraseHrefs(obs.returned.content) = EraseHrefs(obs.orig)

\* a rewritten document leaves with a Content-Type other than JSONResponse's own
C10_Witness ==
    /\ obs.kind = "response"
    /\ obs.returned.content # obs.orig
    /\ obs.handler.ctype = "application/geo+json"
    /\ obs.returned.ctype = "application/geo+json"

-----------------------------------------------------------------------------
(* Properties of local signing (specification SpecRewrite) *)

\* the host part of an href: between "//" and the next "/"
HostOf(href) ==
    LET p == Split(href, <<"/", "/">>)
    IN  IF Len(p) < 2 THEN <<>> ELSE Split(p[2], Slash)[1]

\* the path of an href after the host, as its segments
PathOf(href) ==
    LET p == Split(href, <<"/", "/">>)
    IN  IF Len(p) < 2 THEN <<>> ELSE Tail(Split(p[2], Slash))

\* the container an href names: the first segment of its path
ContainerOf(href) == PathOf(href)[1]

\* the blob an href names: its path below the container
BlobPathOf(href) ==
    LET p == Split(href, <<"/", "/">>)
        rest == p[2]
        skip == Len(HostOf(href)) + 1 + Len(ContainerOf(href)) + 1
    IN  SubSeq(rest, skip + 1, Len(rest))

\* the AccountName the connection string configures
AccountNameOf(cs) == AzureParams(Split(cs, <<";">>), <<>>).d[<<"AccountName">>]

\* C11: an href whose host part does not contain the configured AccountName
\* comes back from get_read_sas_token unchanged, with an empty token, also
\* when the account name occurs in its path or query.
C11_NoAccountMatch ==
    (obs.kind = "sas"
       /\ ~Contains(HostOf(obs.href_before), AccountNameOf(conn))) =>
        /\ obs.sas.href = obs.href_before
        /\ obs.sas.token = <<>>

\* the href with its trailing `?<token>` removed
StripToken(href, token) == SubSeq(href, 1, Len(href) - Len(token) - 1)

\* C18: the URL get_read_sas_token produces for an href containing the account
\* name is, without its trailing `?<sas-token>`, the original href, and the
\* token is signed for the container and the blob the href names.
C18_ResourcePreserved ==
    (obs.kind = "sas" /\ obs.sas.signed) =>
        /\ StripToken(obs.sas.href, obs.sas.token) = obs.href_before
        /\ obs.sas.container = ContainerOf(obs.href_before)
        /\ obs.sas.blob = BlobPathOf(obs.href_before)

-----------------------------------------------------------------------------
(* Properties of tokenify (specification SpecRewrite) *)

\* the asset's href is https://<account>.blob.core.windows.net/<container>/...
MatchesPattern(a) ==
    /\ "href" \in DOMAIN a
    /\ a.href # NotAString
    /\ Len(a.href) >= 9
    /\ SubSeq(a.href, 1, 3) = Https
    /\ SubSeq(a.href, 5, 7) = BlobHost
    /\ a.href[9] = "/"

\* a single item with assets and a collection link came back, or failed,
\* under the remote-delegation middleware while its collection has a Token
ItemRewritten ==
    /\ obs.kind \in {"response", "raised"}
    /\ middleware = "mpc"
    /\ obs.orig \in SingleItems
    /\ TokenifyHead(obs.orig).exc = "none"
    /\ TokenifyHead(obs.orig).collection_id \in DOMAIN token_store
    /\ token_store[TokenifyHead(obs.orig).collection_id] # None

\* C17: within an item, an asset without `href` or with an href that does not
\* match the storage pattern is left as it was, and every other asset whose
\* href matches gets the collection's token appended.
C17_AssetIsolation ==
    ItemRewritten =>
        /\ obs.kind = "response"
        /\ LET tok == token_store[TokenifyHead(obs.orig).collection_id]
           IN  \A j \in 1..Len(obs.orig.assets) :
                  LET a == obs.orig.assets[j]
                      b == obs.returned.content.assets[j]
                  IN  IF MatchesPattern(a)
                      THEN b.href = a.href \o <<"?">> \o tok.token
                      ELSE b = a

\* C19: a token appended to an href was issued by the signing service for the
\* storage account and container of that href.
C19_TokenMatchesAsset ==
    (obs.kind = "get_token" /\ obs.ret # None) =>
        obs.ret.token[1] \in
            TokenPool(SasUrl(StorageAccountName(obs.href_before).val,
                             BlobName(obs.href_before).val))

\* C16: when get_token yields None for an asset, the asset's href stays as it
\* was and the loop goes on to the next asset, the next item or the return
\* statement; in the response, under the handler's status code, every item
\* whose collection has the sentinel is as the handler sent it.
C16_FailureLeavesHref ==
    /\ (obs.kind = "get_token" /\ obs.ret = None) =>
          /\ obs.href_after = obs.href_before
          /\ cur # NoCur /\ cur.exc = "none"
          /\ \/ cur.stage = "respond"
             \/ /\ cur.stage = obs.pos[1]
                /\ \/ cur.i > obs.pos[2]
                   \/ cur.i = obs.pos[2] /\ cur.j > obs.pos[3]
    /\ (obs.kind = "response" /\ middleware = "mpc" /\ obs.orig # Scalar) =>
          /\ obs.returned.status = obs.handler.status
          /\ LET items == IF "features" \in DOMAIN obs.orig
                          THEN obs.orig.features ELSE <<obs.orig>>
                 out == IF "features" \in DOMAIN obs.orig
                        THEN obs.returned.content.features
                        ELSE <<obs.returned.content>>
             IN  items # NotAList =>
                    \A i \in 1..Len(items) :
                       LET h == TokenifyHead(items[i])
                       IN  (/\ h.exc = "none"
                            /\ h.collection_id \in DOMAIN token_store
                            /\ token_store[h.collection_id] = None)
                           => out[i] = items[i]

\* the signing call for the first of two assets fails: the second asset is
\* processed next and meets the sentinel
C16_Witness ==
    /\ obs.kind = "get_token" /\ obs.ret = None /\ obs.called
    /\ cur # NoCur /\ cur.stage = "single" /\ cur.j = 2
    /\ cur.decoded = cur.orig

-----------------------------------------------------------------------------
(* The freshness of cached records (specification Spec) *)

\* the last step was a get_token call that returned the stored Token without
\* calling the signing service
ReturnedFromCache == FoundToken /\ ~obs.called /\ obs.ret # None

\* C12 (as claimed): a Token returned from the cache has
\* now < token_expire - 10 minutes; at token_expire - now = 10 minutes the
\* record is refreshed.
C12_StrictFreshness ==
    /\ ReturnedFromCache => obs.tnow < obs.ret.token_expire - RefreshMargin
    /\ (FoundToken /\ obs.pre.token_expire - obs.tnow = RefreshMargin) =>
          obs.called

\* C12 (amended): a Token returned from the cache has
\* now <= token_expire - 10 minutes, and it is the stored record; at
\* token_expire - now = 10 minutes the record is returned, not refreshed.
C12_Freshness ==
    /\ ReturnedFromCache =>
          /\ obs.tnow <= obs.ret.token_expire - RefreshMargin
          /\ obs.ret = obs.pre
    /\ (FoundToken /\ obs.pre.token_expire - obs.tnow = RefreshMargin) =>
          ~obs.called

\* a record is returned from the cache exactly at the margin
C12_Witness ==
    /\ ReturnedFromCache
    /\ obs.ret.token_expire - obs.tnow = RefreshMargin

-----------------------------------------------------------------------------
(* Concurrent requests (specification SpecConc) *)

\* the value e under key c is the sentinel, or a Token whose token string and
\* token_expire come from the same answer of the signing service
NonTorn(c, e) ==
    \/ e = None
    \/ /\ e.token = SasTokenString(e.token[1], e.token_expire)
       /\ e.collection_name = c

\* C13: whatever the interleaving of the requests, every value under a key of
\* token_store, and so every value a get_token call reads, is None or a Token
\* whose token and token_expire come from one answer of the signing service;
\* a call that went to the service leaves its own result under the key and
\* every other key as it was, and a call that did not leaves token_store alone.
C13_NoTornRecord ==
    /\ \A c \in DOMAIN token_store : NonTorn(c, token_store[c])
    /\ obs.kind = "get_token" =>
          /\ obs.pre # Absent => NonTorn(obs.collection_name, obs.pre)
          /\ token_store =
                IF obs.called
                THEN DictSet(obs.before, obs.collection_name, obs.ret)
                ELSE obs.before
          /\ obs.called =>
                obs.ret = IF HasTokenAndExpiry(obs.r)
                          THEN IssuedRecord(obs.collection_name, obs.r)
                          ELSE None

\* while request t1 is still waiting for its body, request t2 refreshes a Token
\* that has entered the margin and the service answers with a token and no
\* expiry
C13_Witness ==
    /\ obs.kind = "get_token" /\ obs.task = "t2" /\ obs.called
    /\ obs.pre # Absent /\ obs.pre # None
    /\ obs.r.net = "ok" /\ "msft_expiry" \notin DOMAIN obs.r.body
    /\ pc["t1"] = "body"

\* the signing call of request t is in flight
InFlight(t) == cur # NoCur /\ cur.task = t /\ cur.inflight

\* C14: while the signing call of one request is in flight, every other
\* request can take its next step: be received, get its handler's response,
\* get its body and go on.
C14_IssuanceDoesNotBlock ==
    \A t \in Tasks : InFlight(t) =>
       \A u \in Tasks \ {t} :
          /\ pc[u] = "idle" => ENABLED Receive(u)
          /\ pc[u] = "handler" =>
                ENABLED HandlerReturns(u, ConcPaths, ConcResponses)
          /\ pc[u] = "body" => ENABLED BodyRead(u, ConcBodies)

-----------------------------------------------------------------------------
(* Bounded issuance and termination (specification SpecTerm) *)

RECURSIVE SumAssets(_)
\* the number of assets of the items of a list
SumAssets(items) ==
    IF items = <<>> THEN 0
    ELSE (IF "assets" \in DOMAIN Head(items) THEN Len(Head(items).assets) ELSE 0)
         + SumAssets(Tail(items))

\* the number of assets of a document
AssetCount(doc) ==
    (IF "features" \in DOMAIN doc THEN SumAssets(doc.features) ELSE 0)
    + (IF "assets" \in DOMAIN doc THEN Len(doc.assets) ELSE 0)

\* the signing calls of a request never outnumber the assets of its document
CallsBounded ==
    /\ obs.kind = "get_token" => obs.n <= 1
    /\ cur # NoCur => Len(cur.log) <= AssetCount(cur.orig)
    /\ obs.kind = "response" => Len(obs.log) <= AssetCount(obs.orig)

\* C20: a get_token call makes at most one signing call, also when the token
\* it stored last time and the token it gets now are inside the margin; a
\* request makes at most as many signing calls as its document has assets,
\* and once its document is decoded it comes to return a response.
C20_BoundedIssuance ==
    /\ []CallsBounded
    /\ (cur # NoCur) ~> (obs.kind = "response")

\* a response over three assets, each refreshed by one call that brought yet
\* another token inside the margin
C20_Witness ==
    /\ obs.kind = "response"
    /\ AssetCount(obs.orig) = 3
    /\ Len(obs.log) = 3
    /\ \A k \in 1..3 : obs.log[k][2]
    /\ token_store[<<"c1">>].token_expire - now < RefreshMargin

-----------------------------------------------------------------------------
(* Forwarding headers (specification SpecProxy) *)

\* the value of the request's header of that name, <<>> when it has none
HeaderOf(sc, name) ==
    LET c == SelectSeq(sc.headers, LAMBDA h : h[1] = name)
    IN  IF Len(c) = 0 THEN <<>> ELSE c[1][2]

\* the value of field key of a Forwarded header, <<>> when it has none
ForwardedField(fwd, key) ==
    LET parts == Split(fwd, <<";">>)
        sel == SelectSeq(parts, LAMBDA p : Len(p) >= 2 /\ p[1] = key /\ p[2] = "=")
    IN  IF Len(sel) = 0 THEN <<>> ELSE SubSeq(sel[1], 3, Len(sel[1]))

\* domain and port number (0: none) of a host[:port] value
DomainOf(hostport) == <<hostport[1]>>
PortOf(hostport) == IF Len(hostport) = 3 THEN DecimalValue(hostport[3]) ELSE 0

\* scheme, domain and port the claim derives for a request
Expected(sc) ==
    LET host == HeaderOf(sc, "host")
        fwd == HeaderOf(sc, "forwarded")
        xproto == HeaderOf(sc, "x-forwarded-proto")
        xport == HeaderOf(sc, "x-forwarded-port")
        base == [proto |-> sc.scheme,
                 domain |-> IF host = <<>> THEN sc.server[1] ELSE DomainOf(host),
                 port |-> IF host = <<>> THEN sc.server[2] ELSE PortOf(host)]
    IN  IF fwd # <<>>
        THEN [proto |-> IF ForwardedField(fwd, "proto") # <<>>
                        THEN ForwardedField(fwd, "proto") ELSE base.proto,
              domain |-> IF ForwardedField(fwd, "host") # <<>>
                         THEN DomainOf(ForwardedField(fwd, "host"))
                         ELSE base.domain,
              port |-> IF ForwardedField(fwd, "host") # <<>>
                       THEN PortOf(ForwardedField(fwd, "host"))
                       ELSE base.port]
        ELSE [proto |-> IF xproto # <<>> THEN xproto ELSE base.proto,
              domain |-> base.domain,
              port |-> IF xport # <<>> THEN DecimalValue(xport[1]) ELSE base.port]

\* the default port of a scheme (0: none)
DefaultPort(proto) ==
    IF proto = <<"http">> THEN 80 ELSE IF proto = <<"https">> THEN 443 ELSE 0

\* C15: with a Forwarded header, scheme, host and port come from it (what it
\* does not name, from the scope and the Host header) and the X-Forwarded-*
\* headers are ignored; without one, X-Forwarded-Proto and X-Forwarded-Port
\* are used; with neither, the scope's scheme and the Host header or the
\* scope's server.  The rewritten host header is the domain, with `:port` only
\* when the port is not the default port of the resulting scheme.
C15_ForwardedPriority ==
    obs.kind = "proxy" =>
        LET e == Expected(obs.before)
            host == HeaderOf(scope, "host")
        IN  /\ scope.scheme = e.proto
            /\ DomainOf(host) = e.domain
            /\ Len(host) = 3 =>
                  /\ PortOf(host) = e.port
                  /\ PortOf(host) # DefaultPort(e.proto)
            /\ Len(host) = 1 =>
                  e.port \in {0, DefaultPort(e.proto)} \/ DefaultPort(e.proto) = 0

====
